---------------------------- MODULE Spec2Model ----------------------------
(***************************************************************************)
(* Storage node of the distributed file system sample                      *)
(* (storage_node.py, utilities.py): the per-connection request handler,    *)
(* the chunked PUT transfer with its integrity check, the send_file        *)
(* client, the node's storage directory, and the registry table names.    *)
(*                                                                         *)
(* Representation.  A byte stream is a sequence of symbols, each a string: *)
(* a request-type tag, the separator "<>", one character of a filename or  *)
(* of a decimal number, a hex digest, or one byte of file data.  A read    *)
(* returns whole symbols.  A file's content is a sequence of byte symbols. *)
(* A resolved path is the sequence of its component names below the        *)
(* node's working directory.                                               *)
(***************************************************************************)
EXTENDS Integers, Sequences, FiniteSets, TLC

VARIABLES
    hs,          \* hs[c]: the handler process of connection c (its position and locals)
    inbuf,       \* inbuf[c]: symbols sent by the peer, not yet read by the node
    peer,        \* peer[c]: the raw peer of connection c: its script and progress
    peerClosed,  \* peerClosed[c]: the peer has closed its sending side
    sent,        \* sent[c]: the responses the node has written to connection c
    dirs,        \* the directories that exist below the working directory
    files,       \* files[p]: the content of the regular file at resolved path p
    client,      \* the send_file client (round-trip specification)
    idn          \* the table-name derivation (identity specification)

vars == <<hs, inbuf, peer, peerClosed, sent, dirs, files, client, idn>>

---------------------------------------------------------------------------
(* Bounds *)

\* Chunk size of every socket read and file read; 1024 in the source
\* (storage_node.py:15, utilities.py:10), scaled down here.  It stays larger
\* than the longest request header of the model, as 1024 does in practice.
BUFFER_SIZE == 12

\* Largest declared size and longest data of a raw peer's PUT.
MaxSize == 2

\* Longest host name of an identity, in characters.
MaxHostLen == 4

Conns == {1, 2}

---------------------------------------------------------------------------
(* Protocol constants *)

SEPARATOR == "<>"
GET_REQUEST == "<GET_REQUEST>"
PUT_REQUEST == "<PUT_REQUEST>"
STATUS_REQUEST == "<STATUS_REQUEST>"
SERVER_AVAILABLE_CODE == "200"
TRANSFER_SUCCESSFUL_CODE == "TRANSFER_SUCCESSFUL"
NOTIFY_SUCCESS == "<NOTIFY_SUCCESS>"
NOTIFY_FAILURE == "<NOTIFY_FAILURE>"

OperationFailed == "Operation failed."
NotSupported == "Request type not supported yet!"
IntegrityFailed == "File integrity check failed!"
\* The value of a Python function that returns nothing.
None == "<None>"

\* str(e) of the OSError subclasses the filesystem calls raise.
EEXIST == "[Errno 17] File exists"
EISDIR == "[Errno 21] Is a directory"
ENOENT == "[Errno 2] No such file or directory"
ENOTDIR == "[Errno 20] Not a directory"

---------------------------------------------------------------------------
(* Sequences and strings *)

Min(a, b) == IF a <= b THEN a ELSE b

Take(s, k) == SubSeq(s, 1, k)

Drop(s, k) == SubSeq(s, k + 1, Len(s))

\* The symbols of a sequence joined into one string.
RECURSIVE Join(_)
Join(s) == IF s = <<>> THEN "" ELSE Head(s) \o Join(Tail(s))

\* str.find(sep): the first index at which sep occurs in s, 0 when it does not.
Find(s, sep) ==
    LET n == Len(sep)
        hits == {i \in 1..(Len(s) - n + 1) : SubSeq(s, i, i + n - 1) = sep}
    IN  IF hits = {} THEN 0 ELSE CHOOSE i \in hits : \A j \in hits : i <= j

\* str.split(sep): the fields between the non-overlapping occurrences of
\* sep, scanned from the left; always at least one field.
RECURSIVE Split(_, _)
Split(s, sep) ==
    LET i == Find(s, sep)
    IN  IF i = 0 THEN <<s>>
        ELSE <<Take(s, i - 1)>> \o Split(Drop(s, i + Len(sep) - 1), sep)

\* str.replace(old, new) for single characters.
Replace(s, old, new) == [i \in DOMAIN s |-> IF s[i] = old THEN new ELSE s[i]]

Digits == <<"0", "1", "2", "3", "4", "5", "6", "7", "8", "9">>

IsDigit(ch) == \E d \in DOMAIN Digits : Digits[d] = ch

DigitVal(ch) == (CHOOSE d \in DOMAIN Digits : Digits[d] = ch) - 1

RECURSIVE DigitsVal(_, _)
DigitsVal(ds, acc) ==
    IF ds = <<>> THEN acc ELSE DigitsVal(Tail(ds), 10 * acc + DigitVal(Head(ds)))

\* int(s) has a value: an optional sign and at least one decimal digit.
IsInt(s) ==
    LET ds == IF s # <<>> /\ Head(s) = "-" THEN Tail(s) ELSE s
    IN  ds # <<>> /\ \A i \in DOMAIN ds : IsDigit(ds[i])

\* int(s), for IsInt(s).
ParseInt(s) ==
    IF Head(s) = "-" THEN 0 - DigitsVal(Tail(s), 0) ELSE DigitsVal(s, 0)

\* str(n) for n >= 0, as in an f-string.
RECURSIVE FormatInt(_)
FormatInt(n) ==
    IF n < 10 THEN <<Digits[n + 1]>>
    ELSE FormatInt(n \div 10) \o <<Digits[(n % 10) + 1]>>

\* basename left out: the filename field used as it came.
basename_unsanitised(p) == p

\* os.path.basename: what follows the last "/".
basename(p) ==
    LET slashes == {i \in DOMAIN p : p[i] = "/"}
    IN  IF slashes = {} THEN p
        ELSE Drop(p, CHOOSE i \in slashes : \A j \in slashes : j <= i)

\* hashlib.md5 over the file's bytes, hexdigest(): idealised as collision
\* free (distinct contents have distinct digests); one symbol on the wire.
calc_file_md5(content) == "md5:" \o Join(content)

---------------------------------------------------------------------------
(* The node's identity and its filesystem *)

HOST == "0.0.0.0"
PORT == 5000

STORAGE_DIR == "storage_" \o HOST \o "_" \o Join(FormatInt(PORT))

StoragePath == <<STORAGE_DIR>>

\* f"{self.STORAGE_DIR}/{filename}": the path string handed to open().
StorageFilepath(filename) == <<STORAGE_DIR, "/">> \o filename

\* The directory above p.
Up(p) == IF p # <<>> /\ p[Len(p)] # ".." THEN Take(p, Len(p) - 1) ELSE Append(p, "..")

DirExists(p, ds) == p = <<>> \/ p \in ds \/ (\A i \in DOMAIN p : p[i] = "..")

\* Path resolution of the kernel, from directory cur through the component
\* names comps, all of which must be directories: the directory reached, or
\* <<errno>> with a leading "!" component.
RECURSIVE Walk(_, _, _, _)
Walk(comps, cur, ds, fs) ==
    IF comps = <<>> THEN cur
    ELSE LET n == Head(comps)
             nxt == IF n = "" \/ n = "." THEN cur
                    ELSE IF n = ".." THEN Up(cur)
                    ELSE Append(cur, n)
         IN  IF nxt \in DOMAIN fs THEN <<"!", ENOTDIR>>
             ELSE IF ~DirExists(nxt, ds) THEN <<"!", ENOENT>>
             ELSE Walk(Tail(comps), nxt, ds, fs)

\* open(pathstr, "wb"): [err, path]: the error raised, or "" and the
\* resolved path of the regular file that is created or truncated.  fields
\* is the one value of pathstr.split("/").
OpenWb(pathstr, ds, fs) ==
    CHOOSE r \in
        { LET comps == [i \in DOMAIN fields |-> Join(fields[i])]
              last == comps[Len(comps)]
              parent == Walk(Take(comps, Len(comps) - 1), <<>>, ds, fs)
          IN  IF parent # <<>> /\ parent[1] = "!" THEN [err |-> parent[2], path |-> <<>>]
              ELSE IF last = "" \/ last = "." \/ last = ".."
                   THEN [err |-> EISDIR, path |-> <<>>]
              ELSE IF DirExists(Append(parent, last), ds) THEN [err |-> EISDIR, path |-> <<>>]
              ELSE [err |-> "", path |-> Append(parent, last)] :
          fields \in {Split(pathstr, <<"/">>)} } : TRUE

\* A buffered writer's flush of buf at offset 0 of a file holding old.
Overlay(old, buf) == buf \o Drop(old, Min(Len(old), Len(buf)))

---------------------------------------------------------------------------
(* Inputs: what a raw peer sends on a connection *)

Bytes == {"x", "y"}

\* The byte sequences of length at most n.
Contents(n) == UNION {[1..k -> Bytes] : k \in 0..n}

\* Filename fields: plain names, names with directory components, a leading
\* "/", ".." components, a trailing "/", and the bare name "..".
Names ==
    { <<"a">>, <<"b">>, <<"/", "a">>, <<".", ".", "/", "b">>,
      <<"d", "/", "a">>, <<"a", "/">>, <<".", ".">> }

\* The request header send_file builds (utilities.py:182).
PutHeader(filename, file_size, file_hash) ==
    <<PUT_REQUEST, SEPARATOR>> \o filename \o <<SEPARATOR>> \o file_size
        \o <<SEPARATOR>> \o file_hash

\* Every PUT of a filename, a declared size, the digest of some content and
\* some data: honest, corrupted, truncated and oversized transfers alike.
PutScripts ==
    { [hdr |-> PutHeader(n, FormatInt(s), <<calc_file_md5(h)>>), data |-> d] :
        n \in Names, s \in 0..MaxSize, h \in Contents(MaxSize), d \in Contents(MaxSize) }

OtherScripts ==
    { [hdr |-> <<STATUS_REQUEST>>, data |-> <<>>],
      [hdr |-> <<GET_REQUEST, SEPARATOR, "a">>, data |-> <<>>],
      [hdr |-> <<"<DELETE_REQUEST>", SEPARATOR, "a">>, data |-> <<>>],
      [hdr |-> <<>>, data |-> <<>>],
      [hdr |-> <<PUT_REQUEST, SEPARATOR, "a">>, data |-> <<>>],
      [hdr |-> PutHeader(<<"a">>, <<"x">>, <<calc_file_md5(<<"x">>)>>), data |-> <<"x">>],
      [hdr |-> PutHeader(<<"a">>, <<"-", "1">>, <<calc_file_md5(<<>>)>>), data |-> <<>>] }

Scripts == PutScripts \cup OtherScripts

\* The byte a client's file is made of: "x" for file a, "y" for file b.
ByteOf(n) == IF n = "a" THEN "x" ELSE "y"

\* Two kinds of client that each PUT their own file, honestly (the declared
\* size and digest are those of the data), and a status probe.
ConcScripts ==
    { [hdr |-> PutHeader(<<n>>, FormatInt(k), <<calc_file_md5([i \in 1..k |-> ByteOf(n)])>>),
       data |-> [i \in 1..k |-> ByteOf(n)]] :
        n \in {"a", "b"}, k \in 0..MaxSize }
    \cup { [hdr |-> <<STATUS_REQUEST>>, data |-> <<>>] }

\* The sendall calls of a script, in order.
Payloads(script) == SelectSeq(<<script.hdr, script.data>>, LAMBDA p : p # <<>>)

---------------------------------------------------------------------------
(* Initial states *)

NoScript == [hdr |-> <<>>, data |-> <<>>]

HandlerInit ==
    [ pc |-> "closed",
      info_list |-> <<>>,
      filename |-> <<>>,
      file_size |-> 0,
      file_hash |-> <<>>,
      fd |-> <<>>,
      total_bytes_read |-> 0,
      iterations |-> 0,
      wbuf |-> <<>>,
      response_message |-> OperationFailed ]

ClientOff == [pc |-> "off"]

IdnOff == [pc |-> "off"]

\* A file of the working directory that is no part of the node's storage.
OutsidePath == <<"b">>
OldContent == <<"o", "l", "d">>

\* The node's disk at start: no storage directory yet, an empty one, or one
\* that holds a file stored earlier.
InitDisk ==
    /\ \/ dirs = {} /\ files = (OutsidePath :> OldContent)
       \/ dirs = {StoragePath} /\ files = (OutsidePath :> OldContent)
       \/ dirs = {StoragePath}
          /\ files = (OutsidePath :> OldContent) @@ (<<STORAGE_DIR, "a">> :> OldContent)

InitNet ==
    /\ hs = [c \in Conns |-> HandlerInit]
    /\ inbuf = [c \in Conns |-> <<>>]
    /\ peer = [c \in Conns |-> [script |-> NoScript, nsent |-> 0]]
    /\ peerClosed = [c \in Conns |-> FALSE]
    /\ sent = [c \in Conns |-> <<>>]

Init ==
    /\ InitNet
    /\ InitDisk
    /\ client = ClientOff
    /\ idn = IdnOff

---------------------------------------------------------------------------
(* The peer of a connection *)

\* A peer connects; the kernel queues the connection for the server.
Connect(c, scripts) ==
    /\ hs[c].pc = "closed"
    /\ \E s \in scripts : peer' = [peer EXCEPT ![c] = [script |-> s, nsent |-> 0]]
    /\ hs' = [hs EXCEPT ![c].pc = "pending"]
    /\ UNCHANGED <<inbuf, peerClosed, sent, dirs, files, client, idn>>

\* The peer's next sendall.
PeerSend(c) ==
    /\ hs[c].pc # "closed"
    /\ ~peerClosed[c]
    /\ peer[c].nsent < Len(Payloads(peer[c].script))
    /\ inbuf' = [inbuf EXCEPT ![c] = @ \o Payloads(peer[c].script)[peer[c].nsent + 1]]
    /\ peer' = [peer EXCEPT ![c].nsent = @ + 1]
    /\ UNCHANGED <<hs, peerClosed, sent, dirs, files, client, idn>>

\* The peer has sent its whole script.
AllSent(c) == peer[c].nsent = Len(Payloads(peer[c].script))

\* The peer closes its sending side, whatever it has sent so far.
PeerClose(c) ==
    /\ hs[c].pc # "closed"
    /\ ~peerClosed[c]
    /\ peerClosed' = [peerClosed EXCEPT ![c] = TRUE]
    /\ UNCHANGED <<hs, inbuf, peer, sent, dirs, files, client, idn>>

---------------------------------------------------------------------------
(* The connection server and the request handler (storage_node.py) *)

\* socket.recv(BUFFER_SIZE) can return: it blocks while nothing is pending
\* and the peer has not closed.
CanRecv(c) == inbuf[c] # <<>> \/ peerClosed[c]

\* The lengths recv(BUFFER_SIZE) may return: any non-empty prefix of what is
\* pending, at most BUFFER_SIZE long; nothing once the peer has closed.
RecvLens(c) == IF inbuf[c] = <<>> THEN {0} ELSE 1..Min(BUFFER_SIZE, Len(inbuf[c]))

\* A server that handles one connection at a time (TCPServer without the
\* forking mix-in): nothing is accepted while a handler is running.
CanAcceptSerial(c) ==
    \A d \in Conns \ {c} : hs[d].pc \in {"closed", "pending", "done", "crashed"}

\* ForkingTCPServer: the accept loop forks a child per connection and goes
\* back to accepting, whatever the other handlers are doing.
CanAccept(c) == TRUE

Accept(c) ==
    /\ hs[c].pc = "pending"
    /\ CanAccept(c)
    /\ hs' = [hs EXCEPT ![c].pc = "recv_req"]
    /\ UNCHANGED <<inbuf, peer, peerClosed, sent, dirs, files, client, idn>>

\* The loop bound off by one: range(file_size + 1).
LoopGoesOnInclusive(iterations, file_size) == iterations <= file_size

\* A loop without the bound of range(file_size): while True.
LoopGoesOnUnbounded(iterations, file_size) == TRUE

\* for _ in progress: the loop over range(file_size) goes on.
LoopGoesOn(iterations, file_size) == iterations < file_size

\* do_put_handler up to the first filesystem call (lines 67-80).
PutDispatch(h, args) ==
    IF Len(args) # 3 \/ ~IsInt(args[2])
    THEN [h EXCEPT !.pc = "crashed"]
    ELSE [h EXCEPT !.pc = "exists",
                   !.filename = basename(args[1]),
                   !.file_size = ParseInt(args[2]),
                   !.file_hash = args[3]]

\* An unknown request type raising instead of being answered.
DispatchStrict(h, received) ==
    LET info_list == Split(received, <<SEPARATOR>>)
    IN  IF info_list[1] \in {<<GET_REQUEST>>, <<PUT_REQUEST>>, <<STATUS_REQUEST>>}
        THEN [h EXCEPT !.pc = "respond", !.info_list = info_list,
                       !.response_message = SERVER_AVAILABLE_CODE]
        ELSE [h EXCEPT !.pc = "crashed", !.info_list = info_list]

\* handle(), lines 44-61: one read, the split and the dispatch.
Dispatch(h, received) ==
    LET info_list == Split(received, <<SEPARATOR>>)
        request_type == info_list[1]
        h1 == [h EXCEPT !.info_list = info_list]
    IN  IF request_type = <<GET_REQUEST>>
        THEN [h1 EXCEPT !.pc = "respond", !.response_message = None]
        ELSE IF request_type = <<PUT_REQUEST>>
        THEN PutDispatch(h1, Tail(info_list))
        ELSE IF request_type = <<STATUS_REQUEST>>
        THEN [h1 EXCEPT !.pc = "respond", !.response_message = SERVER_AVAILABLE_CODE]
        ELSE [h1 EXCEPT !.pc = "respond", !.response_message = NotSupported]

RecvRequest(c) ==
    /\ hs[c].pc = "recv_req"
    /\ CanRecv(c)
    /\ \E k \in RecvLens(c) :
         /\ hs' = [hs EXCEPT ![c] = Dispatch(@, Take(inbuf[c], k))]
         /\ inbuf' = [inbuf EXCEPT ![c] = Drop(@, k)]
    /\ UNCHANGED <<peer, peerClosed, sent, dirs, files, client, idn>>

\* Line 82: os.path.exists(self.STORAGE_DIR).
PathExists(c) ==
    /\ hs[c].pc = "exists"
    /\ hs' = [hs EXCEPT ![c].pc = IF StoragePath \in dirs THEN "open" ELSE "makedirs"]
    /\ UNCHANGED <<inbuf, peer, peerClosed, sent, dirs, files, client, idn>>

\* Line 83: os.makedirs(self.STORAGE_DIR), which raises when the directory
\* exists; the except clause of line 112 makes the error the response.
MakeDirs(c) ==
    /\ hs[c].pc = "makedirs"
    /\ IF StoragePath \in dirs
       THEN /\ hs' = [hs EXCEPT ![c].pc = "respond", ![c].response_message = EEXIST]
            /\ dirs' = dirs
       ELSE /\ hs' = [hs EXCEPT ![c].pc = "open"]
            /\ dirs' = dirs \cup {StoragePath}
    /\ UNCHANGED <<inbuf, peer, peerClosed, sent, files, client, idn>>

\* Lines 84-89: open(storage_filepath, "wb") creates or truncates the file;
\* the loop is entered unless range(file_size) is empty.  r is the one
\* outcome of the open call.
OpenFile(c) ==
    /\ hs[c].pc = "open"
    /\ \E r \in {OpenWb(StorageFilepath(hs[c].filename), dirs, files)} :
           IF r.err # ""
           THEN /\ hs' = [hs EXCEPT ![c].pc = "respond", ![c].response_message = r.err]
                /\ files' = files
           ELSE /\ hs' = [hs EXCEPT ![c].fd = r.path,
                                    ![c].pc = IF LoopGoesOn(0, hs[c].file_size)
                                              THEN "loop" ELSE "close"]
                /\ files' = [p \in DOMAIN files \cup {r.path} |->
                                IF p = r.path THEN <<>> ELSE files[p]]
    /\ UNCHANGED <<inbuf, peer, peerClosed, sent, dirs, client, idn>>

\* One iteration of the receive loop, lines 89-103.
LoopStep(h, bytes_read) ==
    IF bytes_read = <<>>
    THEN [h EXCEPT !.pc = "close", !.iterations = @ + 1]
    ELSE LET total == h.total_bytes_read + Len(bytes_read)
         IN  [h EXCEPT !.total_bytes_read = total,
                       !.wbuf = @ \o bytes_read,
                       !.iterations = @ + 1,
                       !.pc = IF total = h.file_size THEN "close"
                              ELSE IF LoopGoesOn(h.iterations + 1, h.file_size)
                              THEN "loop" ELSE "close"]

LoopRecv(c) ==
    /\ hs[c].pc = "loop"
    /\ CanRecv(c)
    /\ \E k \in RecvLens(c) :
         /\ hs' = [hs EXCEPT ![c] = LoopStep(@, Take(inbuf[c], k))]
         /\ inbuf' = [inbuf EXCEPT ![c] = Drop(@, k)]
    /\ UNCHANGED <<peer, peerClosed, sent, dirs, files, client, idn>>

\* The end of the with block of line 88: the buffered writer flushes what
\* was written (less than its buffer holds) and the file is closed.
CloseFile(c) ==
    /\ hs[c].pc = "close"
    /\ files' = [files EXCEPT ![hs[c].fd] = Overlay(@, hs[c].wbuf)]
    /\ hs' = [hs EXCEPT ![c].pc = "check"]
    /\ UNCHANGED <<inbuf, peer, peerClosed, sent, dirs, client, idn>>

\* The integrity check with the comparison left out.
is_file_integrity_unchecked(content, recvd_hash) == "True"

\* utilities.is_file_integrity_matched (utilities.py:74-78): True, or the
\* exception whose text is the message.
is_file_integrity_matched(content, recvd_hash) ==
    IF <<calc_file_md5(content)>> # recvd_hash THEN IntegrityFailed ELSE "True"

\* Lines 105-115: the integrity check decides the response.
PutOutcome(content, recvd_hash) ==
    IF is_file_integrity_matched(content, recvd_hash) = "True"
    THEN TRANSFER_SUCCESSFUL_CODE
    ELSE is_file_integrity_matched(content, recvd_hash)

IntegrityCheck(c) ==
    /\ hs[c].pc = "check"
    /\ hs' = [hs EXCEPT ![c].pc = "respond",
                        ![c].response_message = PutOutcome(files[hs[c].fd], hs[c].file_hash)]
    /\ UNCHANGED <<inbuf, peer, peerClosed, sent, dirs, files, client, idn>>

\* A handler that serves the next request of its connection after
\* responding.
RespondKeepAlive(c) ==
    /\ hs[c].pc = "respond"
    /\ hs' = [hs EXCEPT ![c].pc = "recv_req"]
    /\ sent' = [sent EXCEPT ![c] = Append(@, hs[c].response_message)]
    /\ UNCHANGED <<inbuf, peer, peerClosed, dirs, files, client, idn>>

\* Line 63: sendall(bytes(response_message, "utf-8")), which raises a
\* TypeError when response_message is None; then the handler returns.
Respond(c) ==
    /\ hs[c].pc = "respond"
    /\ IF hs[c].response_message = None
       THEN /\ hs' = [hs EXCEPT ![c].pc = "crashed"]
            /\ sent' = sent
       ELSE /\ hs' = [hs EXCEPT ![c].pc = "done"]
            /\ sent' = [sent EXCEPT ![c] = Append(@, hs[c].response_message)]
    /\ UNCHANGED <<inbuf, peer, peerClosed, dirs, files, client, idn>>

Handler(c) ==
    \/ Accept(c)
    \/ RecvRequest(c)
    \/ PathExists(c)
    \/ MakeDirs(c)
    \/ OpenFile(c)
    \/ LoopRecv(c)
    \/ CloseFile(c)
    \/ IntegrityCheck(c)
    \/ Respond(c)

---------------------------------------------------------------------------
(* Specifications *)

\* One connection, every request shape.
Next ==
    \/ Connect(1, Scripts)
    \/ PeerSend(1)
    \/ PeerClose(1)
    \/ Handler(1)

Spec == Init /\ [][Next]_vars

\* Two connections handled concurrently.
NextConc ==
    \E c \in Conns :
        \/ Connect(c, ConcScripts)
        \/ PeerSend(c)
        \/ AllSent(c) /\ PeerClose(c)
        \/ Handler(c)

SpecConc == Init /\ [][NextConc]_vars

\* The handler of c waits in a read for bytes that have not come.
WaitingInRead(c) ==
    /\ hs[c].pc \in {"recv_req", "loop"}
    /\ inbuf[c] = <<>>
    /\ ~peerClosed[c]

\* The peer of a waiting handler delivers more bytes or closes.
PeerProgress(c) == WaitingInRead(c) /\ (PeerSend(c) \/ PeerClose(c))

\* One connection whose handler process keeps being scheduled and whose
\* peer does not stall forever while the handler waits in a read.
\* PUTs of a plain name and of a name that cannot be opened, of every
\* declared size, with a matching or a differing digest and with less, as
\* much or more data than declared; and the other requests.
LiveScripts ==
    { [hdr |-> PutHeader(n, FormatInt(s), <<calc_file_md5([i \in 1..s |-> b])>>),
       data |-> [i \in 1..k |-> "x"]] :
        n \in { <<"a">>, <<"a", "/">> }, s \in 0..MaxSize, b \in Bytes, k \in 0..MaxSize }
    \cup OtherScripts

NextLive ==
    \/ Connect(1, LiveScripts)
    \/ PeerSend(1)
    \/ PeerClose(1)
    \/ Handler(1)

SpecLive ==
    /\ Init
    /\ [][NextLive]_vars
    /\ WF_vars(Handler(1))
    /\ WF_vars(PeerProgress(1))

---------------------------------------------------------------------------
(* The send_file client (utilities.py:173-208) on connection 1 *)

\* A source file of n bytes.
SrcFile(n) == [i \in 1..n |-> IF i % 2 = 1 THEN "x" ELSE "y"]

\* Source sizes around the chunk size: empty, one byte, one byte less than a
\* chunk, a chunk, one byte more, and more than two chunks.
SrcSizes == {0, 1, BUFFER_SIZE - 1, BUFFER_SIZE, BUFFER_SIZE + 1, 2 * BUFFER_SIZE + 1}

SrcPaths == { <<"a">>, <<"d", "/", "a">> }

ClientInit(src_filepath, src, want_server_response) ==
    [ pc |-> "header",
      src_filepath |-> src_filepath,
      src |-> src,
      want_server_response |-> want_server_response,
      file_size |-> 0,
      total_bytes_read |-> 0,
      iterations |-> 0,
      received_response |-> <<NOTIFY_FAILURE, "Operation failed!">> ]

\* After the send loop: read the server's response, or return.
AfterSendLoop(cl) == IF cl.want_server_response THEN "response" ELSE "returned"

\* Lines 174-189: size and digest of the source, then the header in one sendall.
ClientSendHeader ==
    /\ client.pc = "header"
    /\ LET filename == basename(client.src_filepath)
           file_size == Len(client.src)
           file_hash == calc_file_md5(client.src)
       IN  /\ inbuf' = [inbuf EXCEPT ![1] =
                            @ \o PutHeader(filename, FormatInt(file_size), <<file_hash>>)]
           /\ client' = [client EXCEPT !.file_size = file_size,
                                       !.pc = IF LoopGoesOn(0, file_size)
                                              THEN "loop" ELSE AfterSendLoop(client)]
    /\ UNCHANGED <<hs, peer, peerClosed, sent, dirs, files, idn>>

\* One iteration of the send loop, lines 191-203: a chunk of the file, sent.
SendStep(cl, bytes_read) ==
    LET total == cl.total_bytes_read + Len(bytes_read)
    IN  IF bytes_read = <<>>
        THEN [cl EXCEPT !.iterations = @ + 1, !.pc = AfterSendLoop(cl)]
        ELSE IF total = cl.file_size
        THEN [cl EXCEPT !.total_bytes_read = total,
                        !.iterations = @ + 1,
                        !.received_response = <<NOTIFY_SUCCESS, "sent">>,
                        !.pc = AfterSendLoop(cl)]
        ELSE [cl EXCEPT !.total_bytes_read = total,
                        !.iterations = @ + 1,
                        !.pc = IF LoopGoesOn(cl.iterations + 1, cl.file_size)
                               THEN "loop" ELSE AfterSendLoop(cl)]

ClientSendChunk ==
    /\ client.pc = "loop"
    /\ LET bytes_read == SubSeq(client.src, client.total_bytes_read + 1,
                                Min(client.total_bytes_read + BUFFER_SIZE, Len(client.src)))
       IN  /\ inbuf' = [inbuf EXCEPT ![1] = @ \o bytes_read]
           /\ client' = SendStep(client, bytes_read)
    /\ UNCHANGED <<hs, peer, peerClosed, sent, dirs, files, idn>>

\* Lines 205-207: one read of the server's response; it returns nothing
\* when the server has closed the connection without writing one.
ClientRecvResponse ==
    /\ client.pc = "response"
    /\ sent[1] # <<>> \/ hs[1].pc \in {"done", "crashed"}
    /\ client' = [client EXCEPT !.pc = "returned",
                                !.received_response =
                                    IF sent[1] # <<>> THEN <<sent[1][1]>> ELSE <<"">>]
    /\ UNCHANGED <<hs, inbuf, peer, peerClosed, sent, dirs, files, idn>>

\* The caller closes the socket once send_file has returned.
ClientClose ==
    /\ client.pc = "returned"
    /\ ~peerClosed[1]
    /\ peerClosed' = [peerClosed EXCEPT ![1] = TRUE]
    /\ UNCHANGED <<hs, inbuf, peer, sent, dirs, files, client, idn>>

\* The client has connected and is about to call send_file.
InitRT ==
    /\ hs = [c \in Conns |-> IF c = 1 THEN [HandlerInit EXCEPT !.pc = "pending"]
                             ELSE HandlerInit]
    /\ inbuf = [c \in Conns |-> <<>>]
    /\ peer = [c \in Conns |-> [script |-> NoScript, nsent |-> 0]]
    /\ peerClosed = [c \in Conns |-> FALSE]
    /\ sent = [c \in Conns |-> <<>>]
    /\ InitDisk
    /\ \E p \in SrcPaths, n \in SrcSizes, w \in BOOLEAN :
         client = ClientInit(p, SrcFile(n), w)
    /\ idn = IdnOff

NextRT ==
    \/ ClientSendHeader
    \/ ClientSendChunk
    \/ ClientRecvResponse
    \/ ClientClose
    \/ Handler(1)

SpecRT == InitRT /\ [][NextRT]_vars

---------------------------------------------------------------------------
(* The receive_file client (utilities.py:96-169) on connection 1; dirs and *)
(* files are the client's own disk, inbuf[1] what the server has replied.  *)

OperationNotSupported == "Operation not supported"
SavedSuccessfully == "saved successfully. Integrity check passed."

\* os.path.dirname: what precedes the last "/", without trailing slashes
\* unless it consists of slashes only.
dirname(p) ==
    LET slashes == {i \in DOMAIN p : p[i] = "/"}
        head == IF slashes = {} THEN <<>>
                ELSE Take(p, CHOOSE i \in slashes : \A j \in slashes : j <= i)
        others == {i \in DOMAIN head : head[i] # "/"}
    IN  IF others = {} THEN head
        ELSE Take(head, CHOOSE i \in others : \A j \in others : j <= i)

\* The component names of a relative path string without "." and "..".
Components(pathstr) ==
    LET fields == Split(pathstr, <<"/">>)
    IN  [i \in DOMAIN fields |-> Join(fields[i])]

\* os.path.exists(pathstr): False for the empty string.
exists(pathstr, ds, fs) ==
    /\ pathstr # <<>>
    /\ Components(pathstr) \in ds \cup DOMAIN fs

\* The replies of a server to the GET request: a failure notice, an unknown
\* reply type, nothing at all, and a PUT-shaped header of any declared size
\* and digest followed by any data (honest, corrupted, truncated, oversized).
ReplyScripts ==
    { [hdr |-> <<NOTIFY_FAILURE, SEPARATOR, "e">>, data |-> <<>>],
      [hdr |-> <<"<OTHER>">>, data |-> <<>>],
      [hdr |-> <<>>, data |-> <<>>] }
    \cup { [hdr |-> PutHeader(<<"a">>, FormatInt(s), <<calc_file_md5(h)>>), data |-> d] :
             s \in 0..MaxSize, h \in Contents(MaxSize), d \in Contents(MaxSize) }

DestPaths == { <<"d", "/", "a">>, <<"a">> }

ReceiveInit(dest_filepath) ==
    [ pc |-> "get",
      dest_filepath |-> dest_filepath,
      request |-> <<>>,
      file_info_recvd |-> <<>>,
      file_size |-> 0,
      file_hash |-> <<>>,
      fd |-> <<>>,
      total_bytes_read |-> 0,
      iterations |-> 0,
      wbuf |-> <<>>,
      response_message |-> <<NOTIFY_FAILURE, "Operation failed!">> ]

\* receive_file returns the pair msg.
Return(cl, msg) == [cl EXCEPT !.pc = "returned", !.response_message = msg]

\* An exception leaves receive_file.
Raise(cl, text) == [cl EXCEPT !.pc = "raised", !.response_message = <<text>>]

\* Lines 99-100: the GET request, in one sendall.
ReceiveSendGet ==
    /\ client.pc = "get"
    /\ client' = [client EXCEPT
                    !.pc = "recv_info",
                    !.request = <<GET_REQUEST, SEPARATOR>> \o basename(client.dest_filepath)]
    /\ UNCHANGED <<hs, inbuf, peer, peerClosed, sent, dirs, files, idn>>

\* The server's next sendall, once the request is out.
ReplySend ==
    /\ client.pc \notin {"off", "get"}
    /\ ~peerClosed[1]
    /\ peer[1].nsent < Len(Payloads(peer[1].script))
    /\ inbuf' = [inbuf EXCEPT ![1] = @ \o Payloads(peer[1].script)[peer[1].nsent + 1]]
    /\ peer' = [peer EXCEPT ![1].nsent = @ + 1]
    /\ UNCHANGED <<hs, peerClosed, sent, dirs, files, client, idn>>

\* The server closes the connection, whatever it has sent so far.
ReplyClose ==
    /\ client.pc \notin {"off", "get"}
    /\ ~peerClosed[1]
    /\ peerClosed' = [peerClosed EXCEPT ![1] = TRUE]
    /\ UNCHANGED <<hs, inbuf, peer, sent, dirs, files, client, idn>>

\* Lines 102-112 and 129-131: the reply's fields and what they lead to.
\* The indexing and int() are outside any try block.
ReceiveDispatch(cl, received) ==
    LET file_info_recvd == Split(received, <<SEPARATOR>>)
        response_type == file_info_recvd[1]
        cl1 == [cl EXCEPT !.file_info_recvd = file_info_recvd]
    IN  IF response_type = <<NOTIFY_FAILURE>>
        THEN IF Len(file_info_recvd) < 2 THEN Raise(cl1, "IndexError")
             ELSE Return(cl1, <<NOTIFY_FAILURE, Join(file_info_recvd[2])>>)
        ELSE IF response_type = <<PUT_REQUEST>>
        THEN IF Len(file_info_recvd) < 3 THEN Raise(cl1, "IndexError")
             ELSE IF ~IsInt(file_info_recvd[3]) THEN Raise(cl1, "ValueError")
             ELSE IF Len(file_info_recvd) < 4 THEN Raise(cl1, "IndexError")
             ELSE [cl1 EXCEPT !.pc = "exists",
                              !.file_size = ParseInt(file_info_recvd[3]),
                              !.file_hash = file_info_recvd[4]]
        ELSE Return(cl1, <<NOTIFY_FAILURE, OperationNotSupported>>)

ReceiveInfo ==
    /\ client.pc = "recv_info"
    /\ CanRecv(1)
    /\ \E k \in RecvLens(1) :
         /\ client' = ReceiveDispatch(client, Take(inbuf[1], k))
         /\ inbuf' = [inbuf EXCEPT ![1] = Drop(@, k)]
    /\ UNCHANGED <<hs, peer, peerClosed, sent, dirs, files, idn>>

\* Lines 148-149: os.path.exists(os.path.dirname(dest_filepath)).
ReceivePathExists ==
    /\ client.pc = "exists"
    /\ client' = [client EXCEPT !.pc = IF exists(dirname(client.dest_filepath), dirs, files)
                                       THEN "open" ELSE "makedirs"]
    /\ UNCHANGED <<hs, inbuf, peer, peerClosed, sent, dirs, files, idn>>

\* Line 150: os.makedirs(storage_dir); its errors are re-raised at line 169
\* and made the failure pair at lines 117-119.
ReceiveMakeDirs ==
    /\ client.pc = "makedirs"
    /\ LET storage_dir == dirname(client.dest_filepath)
       IN  IF storage_dir = <<>>
           THEN /\ client' = Return(client, <<NOTIFY_FAILURE, ENOENT>>)
                /\ dirs' = dirs
           ELSE IF exists(storage_dir, dirs, files)
           THEN /\ client' = Return(client, <<NOTIFY_FAILURE, EEXIST>>)
                /\ dirs' = dirs
           ELSE /\ client' = [client EXCEPT !.pc = "open"]
                /\ dirs' = dirs \cup {Components(storage_dir)}
    /\ UNCHANGED <<hs, inbuf, peer, peerClosed, sent, files, idn>>

\* Lines 152-153: open(dest_filepath, "wb"), then the loop over range(file_size).
ReceiveOpenFile ==
    /\ client.pc = "open"
    /\ \E r \in {OpenWb(client.dest_filepath, dirs, files)} :
           IF r.err # ""
           THEN /\ client' = Return(client, <<NOTIFY_FAILURE, r.err>>)
                /\ files' = files
           ELSE /\ client' = [client EXCEPT !.fd = r.path,
                                            !.pc = IF LoopGoesOn(0, client.file_size)
                                                   THEN "loop" ELSE "close"]
                /\ files' = [p \in DOMAIN files \cup {r.path} |->
                                IF p = r.path THEN <<>> ELSE files[p]]
    /\ UNCHANGED <<hs, inbuf, peer, peerClosed, sent, dirs, idn>>

\* Lines 153-167: the receive loop, the same statements as the node's.
ReceiveLoopRecv ==
    /\ client.pc = "loop"
    /\ CanRecv(1)
    /\ \E k \in RecvLens(1) :
         /\ client' = LoopStep(client, Take(inbuf[1], k))
         /\ inbuf' = [inbuf EXCEPT ![1] = Drop(@, k)]
    /\ UNCHANGED <<hs, peer, peerClosed, sent, dirs, files, idn>>

\* The end of the with block of line 152.
ReceiveCloseFile ==
    /\ client.pc = "close"
    /\ files' = [files EXCEPT ![client.fd] = Overlay(@, client.wbuf)]
    /\ client' = [client EXCEPT !.pc = "check"]
    /\ UNCHANGED <<hs, inbuf, peer, peerClosed, sent, dirs, idn>>

\* Lines 121-128: the integrity check, outside the try block: its exception
\* leaves receive_file.
ReceiveIntegrityCheck ==
    /\ client.pc = "check"
    /\ client' =
         IF is_file_integrity_matched(files[client.fd], client.file_hash) = "True"
         THEN Return(client, <<NOTIFY_SUCCESS, SavedSuccessfully>>)
         ELSE Raise(client, is_file_integrity_matched(files[client.fd], client.file_hash))
    /\ UNCHANGED <<hs, inbuf, peer, peerClosed, sent, dirs, files, idn>>

\* The client has connected and calls receive_file; its disk has the
\* destination directory or not.
InitRecv ==
    /\ hs = [c \in Conns |-> HandlerInit]
    /\ inbuf = [c \in Conns |-> <<>>]
    /\ \E s \in ReplyScripts :
         peer = [c \in Conns |-> IF c = 1 THEN [script |-> s, nsent |-> 0]
                                 ELSE [script |-> NoScript, nsent |-> 0]]
    /\ peerClosed = [c \in Conns |-> FALSE]
    /\ sent = [c \in Conns |-> <<>>]
    /\ dirs \in { {}, {<<"d">>} }
    /\ files = (OutsidePath :> OldContent)
    /\ \E p \in DestPaths : client = ReceiveInit(p)
    /\ idn = IdnOff

NextRecv ==
    \/ ReceiveSendGet
    \/ ReplySend
    \/ ReplyClose
    \/ ReceiveInfo
    \/ ReceivePathExists
    \/ ReceiveMakeDirs
    \/ ReceiveOpenFile
    \/ ReceiveLoopRecv
    \/ ReceiveCloseFile
    \/ ReceiveIntegrityCheck

SpecRecv == InitRecv /\ [][NextRecv]_vars

---------------------------------------------------------------------------
(* Registry table names (utilities.py:18-27) *)

\* ip, port = ip_addr.split(':'); f"sn__{ip.replace('.', '_')}__{port}"
get_sn_table_name_from_ip(ip_addr) ==
    LET parts == Split(ip_addr, <<":">>)
        ip == Replace(parts[1], ".", "_")
        port == parts[2]
    IN  <<"s", "n", "_", "_">> \o ip \o <<"_", "_">> \o port

\* ip_addr = table_name.split('__')[1:]; f"{ip_addr[0]}:{ip_addr[1]}"
get_ip_from_sn_table_name(table_name) ==
    LET ip_addr == Tail(Split(table_name, <<"_", "_">>))
    IN  ip_addr[1] \o <<":">> \o ip_addr[2]

LabelChars == {"0", "n"}

\* Host names: dot-separated non-empty labels, at most MaxHostLen characters.
Hosts ==
    { h \in UNION {[1..k -> LabelChars \cup {"."}] : k \in 1..MaxHostLen} :
        /\ h[1] # "."
        /\ h[Len(h)] # "."
        /\ \A i \in 1..(Len(h) - 1) : ~(h[i] = "." /\ h[i + 1] = ".") }

Ports == { <<"5">>, <<"8", "0">> }

Identities == { h \o <<":">> \o p : h \in Hosts, p \in Ports }

InitId ==
    /\ InitNet
    /\ dirs = {}
    /\ files = (OutsidePath :> OldContent)
    /\ client = ClientOff
    /\ \E a \in Identities :
         idn = [pc |-> "start", ip_addr |-> a, table_name |-> <<>>, result |-> <<>>]

DeriveTableName ==
    /\ idn.pc = "start"
    /\ idn' = [idn EXCEPT !.pc = "derived",
                          !.table_name = get_sn_table_name_from_ip(idn.ip_addr)]
    /\ UNCHANGED <<hs, inbuf, peer, peerClosed, sent, dirs, files, client>>

InvertTableName ==
    /\ idn.pc = "derived"
    /\ idn' = [idn EXCEPT !.pc = "inverted",
                          !.result = get_ip_from_sn_table_name(idn.table_name)]
    /\ UNCHANGED <<hs, inbuf, peer, peerClosed, sent, dirs, files, client>>

NextId == DeriveTableName \/ InvertTableName

SpecId == InitId /\ [][NextId]_vars

---------------------------------------------------------------------------
(* Vocabulary of the claims *)

\* The handler of connection c has ended: it returned, or an exception left handle().
Terminated(c) == hs[c].pc \in {"done", "crashed"}

\* The request read on c was dispatched to do_put_handler and passed its
\* unpacking and int() (the handler holds filename, file_size, file_hash).
PutAccepted(c) ==
    /\ hs[c].pc \in {"exists", "makedirs", "open", "loop", "close", "check", "respond", "done"}
    /\ hs[c].info_list # <<>>
    /\ hs[c].info_list[1] = <<PUT_REQUEST>>

\* The handler of c opened its destination file.
Opened(c) == hs[c].fd # <<>>

\* The request read on c returned exactly the header its peer sent.
ReadWholeHeader(c) ==
    /\ peer[c].script.hdr # <<>>
    /\ hs[c].info_list = Split(peer[c].script.hdr, <<SEPARATOR>>)

\* p is an immediate child of the storage directory.
InStorage(p) == Len(p) = 2 /\ p[1] = STORAGE_DIR /\ p[2] \notin {"", ".", ".."}

---------------------------------------------------------------------------
(* C1 *)

\* C1: a PUT is answered TRANSFER_SUCCESSFUL only if the number of bytes
\* received and written equals the declared size and the digest of the
\* written file equals the expected hash.  Stated for the requests whose
\* header was read whole and declares a size that is not negative.
ClaimC1 ==
    \A c \in Conns :
        ( /\ ReadWholeHeader(c)
          /\ hs[c].file_size >= 0
          /\ sent[c] = <<TRANSFER_SUCCESSFUL_CODE>> )
        => /\ hs[c].total_bytes_read = hs[c].file_size
           /\ Len(files[hs[c].fd]) = hs[c].file_size
           /\ <<calc_file_md5(files[hs[c].fd])>> = hs[c].file_hash

---------------------------------------------------------------------------
(* C3 *)

\* C3: every connection on which the node has read a request ends with
\* exactly one response written to the peer, whatever went wrong.  Stated
\* for the requests whose header was read whole.
ClaimC3 ==
    \A c \in Conns : (Terminated(c) /\ ReadWholeHeader(c)) => Len(sent[c]) = 1

---------------------------------------------------------------------------
(* C5 *)

\* C5: when a PUT received exactly the declared number of bytes and their
\* digest differs from the expected hash, the response is the integrity
\* failure message, not TRANSFER_SUCCESSFUL, and the file stays on disk with
\* exactly the received bytes.
TheoremC5 ==
    \A c \in Conns :
        ( /\ PutAccepted(c)
          /\ Opened(c)
          /\ hs[c].pc \in {"respond", "done"}
          /\ hs[c].total_bytes_read = hs[c].file_size
          /\ <<calc_file_md5(hs[c].wbuf)>> # hs[c].file_hash )
        => /\ hs[c].response_message = IntegrityFailed
           /\ hs[c].pc = "done" => sent[c] = <<IntegrityFailed>>
           /\ hs[c].fd \in DOMAIN files
           /\ files[hs[c].fd] = hs[c].wbuf

WitnessC5 ==
    \E c \in Conns :
        /\ PutAccepted(c)
        /\ Opened(c)
        /\ hs[c].pc = "done"
        /\ hs[c].file_size > 0
        /\ hs[c].total_bytes_read = hs[c].file_size
        /\ <<calc_file_md5(hs[c].wbuf)>> # hs[c].file_hash
        /\ sent[c] = <<IntegrityFailed>>
        /\ files[hs[c].fd] = hs[c].wbuf

---------------------------------------------------------------------------
(* C6 *)

\* C6: a GET_REQUEST is answered on its connection: with a NOTIFY_FAILURE
\* message when the file is absent from the storage directory, with a
\* PUT_REQUEST-shaped header and the file's bytes when it is present.
\* Stated for the requests whose header was read whole.
ClaimC6 ==
    \A c \in Conns :
        (Terminated(c) /\ ReadWholeHeader(c) /\ hs[c].info_list[1] = <<GET_REQUEST>>)
        => /\ sent[c] # <<>>
           /\ LET path == <<STORAGE_DIR, Join(basename(hs[c].info_list[2]))>>
              IN  IF path \in DOMAIN files
                  THEN sent[c][1] = PUT_REQUEST
                  ELSE sent[c][1] = NOTIFY_FAILURE

---------------------------------------------------------------------------
(* C9 *)

\* The size field of the request read on c is the integer 0.
DeclaredZero(c) ==
    /\ PutAccepted(c)
    /\ ParseInt(hs[c].info_list[3]) = 0

\* C9: a PUT that declares size 0 reads no file data from the socket, leaves
\* an empty destination file, and is answered TRANSFER_SUCCESSFUL when the
\* expected hash is the digest of the empty content.
TheoremC9 ==
    \A c \in Conns :
        DeclaredZero(c) =>
            /\ hs[c].pc # "loop"
            /\ hs[c].iterations = 0
            /\ hs[c].wbuf = <<>>
            /\ (Opened(c) /\ hs[c].pc \in {"close", "check", "respond", "done"})
                   => files[hs[c].fd] = <<>>
            /\ ( /\ Opened(c)
                 /\ hs[c].pc \in {"respond", "done"}
                 /\ hs[c].file_hash = <<calc_file_md5(<<>>)>> )
               => /\ hs[c].response_message = TRANSFER_SUCCESSFUL_CODE
                  /\ hs[c].pc = "done" => sent[c] = <<TRANSFER_SUCCESSFUL_CODE>>

WitnessC9 ==
    \E c \in Conns :
        /\ DeclaredZero(c)
        /\ hs[c].pc = "done"
        /\ hs[c].fd = <<STORAGE_DIR, "a">>
        /\ files[hs[c].fd] = <<>>
        /\ hs[c].iterations = 0
        /\ sent[c] = <<TRANSFER_SUCCESSFUL_CODE>>

---------------------------------------------------------------------------
(* C10 *)

\* C10: whatever the filename field of a PUT, the only file the handler
\* creates or modifies is an immediate child of the storage directory; no
\* file or directory outside it is created, truncated or written.
TheoremC10 ==
    /\ dirs \subseteq {StoragePath}
    /\ \A p \in DOMAIN files :
         \/ p = OutsidePath /\ files[p] = OldContent
         \/ InStorage(p)
    /\ \A c \in Conns : Opened(c) => InStorage(hs[c].fd)

WitnessC10 ==
    \E c \in Conns :
        /\ PutAccepted(c)
        /\ hs[c].info_list[2] = <<".", ".", "/", "b">>
        /\ hs[c].pc = "done"
        /\ hs[c].fd = <<STORAGE_DIR, "b">>
        /\ hs[c].wbuf # <<>>
        /\ files[hs[c].fd] = hs[c].wbuf
        /\ files[OutsidePath] = OldContent

---------------------------------------------------------------------------
(* C2 *)

\* The header send_file sends for the client's source file.
ClientHeader ==
    PutHeader(basename(client.src_filepath), FormatInt(Len(client.src)),
              <<calc_file_md5(client.src)>>)

\* The node's request read returned at least the client's whole header
\* (and perhaps file bytes after it).
ReadClientHeader ==
    LET fields == Split(ClientHeader, <<SEPARATOR>>)
    IN  /\ Len(hs[1].info_list) = 4
        /\ \A i \in 1..3 : hs[1].info_list[i] = fields[i]
        /\ hs[1].info_list[4] # <<>>
        /\ Head(hs[1].info_list[4]) = fields[4][1]

\* Where the node stores the client's file.
ClientDest == <<STORAGE_DIR, Join(basename(client.src_filepath))>>

\* C2: when send_file sends a source file and the node handles the
\* connection, then for every way the stream delivers the bytes to the
\* node's reads, the node answers TRANSFER_SUCCESSFUL and the stored file
\* holds exactly the source's bytes.  Stated for the deliveries whose first
\* read returns at least the whole header.
ClaimC2 ==
    (Terminated(1) /\ ReadClientHeader)
    => /\ sent[1] = <<TRANSFER_SUCCESSFUL_CODE>>
       /\ ClientDest \in DOMAIN files
       /\ files[ClientDest] = client.src

---------------------------------------------------------------------------
(* C4 *)

\* C4: two concurrent PUTs of different filenames to one node, in any
\* interleaving of their steps and from any initial state of the disk, are
\* both answered TRANSFER_SUCCESSFUL and leave two files, each holding the
\* bytes its own client sent.  Stated for the requests whose header was read
\* whole.
ClaimC4 ==
    \A c, d \in Conns :
        ( /\ c # d
          /\ PutAccepted(c) /\ ReadWholeHeader(c) /\ hs[c].pc = "done"
          /\ PutAccepted(d) /\ ReadWholeHeader(d) /\ hs[d].pc = "done"
          /\ hs[c].filename # hs[d].filename )
        => /\ sent[c] = <<TRANSFER_SUCCESSFUL_CODE>>
           /\ sent[d] = <<TRANSFER_SUCCESSFUL_CODE>>
           /\ files[<<STORAGE_DIR, Join(hs[c].filename)>>] = peer[c].script.data
           /\ files[<<STORAGE_DIR, Join(hs[d].filename)>>] = peer[d].script.data

---------------------------------------------------------------------------
(* C7 *)

\* C7: for every well-formed identity host:port, the table name derived
\* from it is turned back into the same host:port string.
ClaimC7 == idn.pc = "inverted" => idn.result = idn.ip_addr

---------------------------------------------------------------------------
(* C8 *)

\* The peer of c sends a STATUS_REQUEST.
IsStatus(c) == hs[c].pc # "closed" /\ peer[c].script.hdr = <<STATUS_REQUEST>>

\* The handler of c is inside a PUT transfer, waiting for file data.
BlockedInTransfer(c) == hs[c].pc = "loop" /\ inbuf[c] = <<>> /\ ~peerClosed[c]

\* C8: a STATUS_REQUEST is answered "200", as the single response after one
\* read, whatever the handlers of the other connections are doing: its
\* connection is accepted and its response written without waiting for a
\* transfer in progress on another connection.
TheoremC8 ==
    \A c \in Conns :
        IsStatus(c) =>
            /\ hs[c].pc \in {"pending", "recv_req", "respond", "done"}
            /\ hs[c].pc = "pending" => ENABLED Accept(c)
            /\ (hs[c].pc = "recv_req" /\ inbuf[c] # <<>>) => ENABLED RecvRequest(c)
            /\ hs[c].pc = "respond" =>
                   /\ hs[c].response_message = SERVER_AVAILABLE_CODE
                   /\ ENABLED Respond(c)
            /\ hs[c].pc \in {"pending", "recv_req", "respond"} => sent[c] = <<>>
            /\ hs[c].pc = "done" => sent[c] = <<SERVER_AVAILABLE_CODE>>

WitnessC8 ==
    \E c, d \in Conns :
        /\ IsStatus(c)
        /\ hs[c].pc = "done"
        /\ sent[c] = <<SERVER_AVAILABLE_CODE>>
        /\ BlockedInTransfer(d)
        /\ peer[d].nsent = 1

---------------------------------------------------------------------------
(* C11 *)

\* The PUT on c left its receive loop on a zero-length read, with fewer
\* bytes received than it declared.
Truncated(c) ==
    /\ PutAccepted(c)
    /\ Opened(c)
    /\ hs[c].pc \in {"close", "check", "respond", "done"}
    /\ hs[c].total_bytes_read < hs[c].file_size

\* The responses do_put_handler gives the request of c when all the declared
\* bytes arrive and their digest is not the expected hash.
MismatchResponses(c) ==
    { PutOutcome(d, hs[c].file_hash) :
        d \in { e \in [1..hs[c].file_size -> Bytes] :
                    <<calc_file_md5(e)>> # hs[c].file_hash } }

\* C11: a PUT whose peer closed the stream before the declared number of
\* bytes arrived is answered with a response different from the one given
\* when all the declared bytes arrived and the digest disagreed.  Stated for
\* the requests whose header was read whole.
ClaimC11 ==
    \A c \in Conns :
        (Truncated(c) /\ ReadWholeHeader(c) /\ hs[c].pc = "done")
        => sent[c][1] \notin MismatchResponses(c)

---------------------------------------------------------------------------
(* C12 *)

\* The request read on c names none of the three request types.
Unsupported(c) ==
    /\ hs[c].info_list # <<>>
    /\ hs[c].info_list[1] \notin {<<GET_REQUEST>>, <<PUT_REQUEST>>, <<STATUS_REQUEST>>}

\* C12: a request whose first field is none of GET_REQUEST, PUT_REQUEST and
\* STATUS_REQUEST (the empty request of a peer that closed at once included)
\* is answered with the fixed unsupported-request message, the handler
\* returns normally, and no step of that handler creates or changes a file
\* or a directory.
TheoremC12 ==
    /\ [](\A c \in Conns :
            Unsupported(c) =>
                /\ hs[c].pc \in {"respond", "done"}
                /\ hs[c].response_message = NotSupported
                /\ hs[c].fd = <<>>
                /\ hs[c].pc = "respond" => sent[c] = <<>>
                /\ hs[c].pc = "done" => sent[c] = <<NotSupported>>)
    /\ [][\A c \in Conns :
            (Unsupported(c)' /\ hs'[c] # hs[c]) => (dirs' = dirs /\ files' = files)]_vars

WitnessC12 ==
    \E c \in Conns :
        /\ hs[c].info_list = << <<>> >>
        /\ peerClosed[c]
        /\ hs[c].pc = "done"
        /\ sent[c] = <<NotSupported>>

---------------------------------------------------------------------------
(* C13 *)

\* The order of the handler's positions: the request read, the dispatch
\* (for PUT the directory, the file, the receive loop, the integrity check),
\* the response write, the end.
Rank(pc) ==
    CASE pc = "closed" -> 0
      [] pc = "pending" -> 1
      [] pc = "recv_req" -> 2
      [] pc = "exists" -> 3
      [] pc = "makedirs" -> 4
      [] pc = "open" -> 5
      [] pc = "loop" -> 6
      [] pc = "close" -> 7
      [] pc = "check" -> 8
      [] pc = "respond" -> 9
      [] pc = "done" -> 10
      [] pc = "crashed" -> 10

\* The step reads from the socket of c.
SocketRead(c) ==
    \/ Len(inbuf'[c]) < Len(inbuf[c])
    \/ hs'[c] # hs[c] /\ hs[c].pc \in {"recv_req", "loop"}

\* The step writes to the socket of c.
SocketWrite(c) == sent'[c] # sent[c]

\* C13: on one connection the handler reads and parses one request, then
\* dispatches (for PUT: the file-data reads, the file writes, the integrity
\* check), then writes at most one response; after the response it reads and
\* writes the socket no more, and it never reads a second request.
TheoremC13 ==
    /\ [](\A c \in Conns :
            /\ Len(sent[c]) <= 1
            /\ sent[c] # <<>> => hs[c].pc = "done"
            /\ hs[c].info_list # <<>> => Rank(hs[c].pc) > Rank("recv_req")
            /\ hs[c].info_list = <<>> => Rank(hs[c].pc) <= Rank("recv_req"))
    /\ [][\A c \in Conns :
            /\ Rank(hs'[c].pc) >= Rank(hs[c].pc)
            /\ hs[c].info_list # <<>> => hs'[c].info_list = hs[c].info_list
            /\ Terminated(c) => (hs'[c] = hs[c] /\ ~SocketRead(c) /\ ~SocketWrite(c))
            /\ SocketRead(c) =>
                   /\ hs[c].pc \in {"recv_req", "loop"}
                   /\ sent[c] = <<>>
                   /\ sent'[c] = <<>>
            /\ SocketWrite(c) =>
                   /\ hs[c].pc = "respond"
                   /\ sent[c] = <<>>
                   /\ Len(sent'[c]) = 1
                   /\ hs'[c].pc = "done"
            /\ (files' # files /\ hs'[c] # hs[c]) =>
                   /\ hs[c].pc \in {"open", "close"}
                   /\ hs[c].info_list # <<>>
                   /\ sent[c] = <<>>]_vars

WitnessC13 ==
    \E c \in Conns :
        /\ PutAccepted(c)
        /\ hs[c].pc = "done"
        /\ hs[c].iterations > 0
        /\ Len(sent[c]) = 1
        /\ inbuf[c] # <<>>

---------------------------------------------------------------------------
(* C14 *)

\* C14: the step that ensures the storage directory exists never makes a
\* PUT fail because the directory already exists, another handler creating
\* the directory between this handler's existence check and its own
\* directory creation included.
ClaimC14 ==
    \A c \in Conns :
        PutAccepted(c) =>
            /\ hs[c].response_message # EEXIST
            /\ EEXIST \notin {sent[c][i] : i \in DOMAIN sent[c]}

---------------------------------------------------------------------------
(* C17 *)

\* C17: at every point of a PUT transfer the running count total_bytes_read,
\* and with it the number of bytes written to the destination file, is at
\* most the declared file_size, whatever the peer sends.  Stated for the
\* requests whose header was read whole and declares a size that is not
\* negative.
ClaimC17 ==
    \A c \in Conns :
        (PutAccepted(c) /\ ReadWholeHeader(c) /\ hs[c].file_size >= 0)
        => /\ hs[c].total_bytes_read <= hs[c].file_size
           /\ Len(hs[c].wbuf) <= hs[c].file_size
           /\ (Opened(c) /\ hs[c].fd \in DOMAIN files /\ hs[c].pc \in {"check", "respond", "done"})
                  => Len(files[hs[c].fd]) <= hs[c].file_size

---------------------------------------------------------------------------
(* C16 *)

\* C16: send_file called with want_server_response=False returns a
\* NOTIFY_SUCCESS pair if and only if it has sent the whole file, for every
\* file size, 0 included.
ClaimC16 ==
    (client.pc = "returned" /\ ~client.want_server_response)
    => ( client.received_response[1] = NOTIFY_SUCCESS
         <=> client.total_bytes_read = Len(client.src) )

---------------------------------------------------------------------------
(* C18 *)

\* The file stored on the node earlier is there with its content.
StoredBefore ==
    /\ <<STORAGE_DIR, "a">> \in DOMAIN files
    /\ files[<<STORAGE_DIR, "a">>] = OldContent

\* The PUT on c has ended with a failure response.
FailedPut(c) ==
    /\ PutAccepted(c)
    /\ ReadWholeHeader(c)
    /\ hs[c].pc = "done"
    /\ sent[c] # <<TRANSFER_SUCCESSFUL_CODE>>

\* C18: a PUT that ends with a failure response leaves the files stored on
\* the node before it unchanged, a stored file of the same base name
\* included: when the node starts with a stored file, the file still has
\* its content after any failed PUT.
ClaimC18 == StoredBefore => [](\A c \in Conns : FailedPut(c) => StoredBefore)

---------------------------------------------------------------------------
(* C19 *)

\* C19: the PUT receive loop performs at most as many socket reads as the
\* declared size, and when the peer of a handler waiting in a read always
\* eventually delivers a byte or closes, every PUT handler that entered the
\* loop eventually leaves it, runs the integrity check and sends its
\* response, and every accepted PUT is eventually answered.
TheoremC19 ==
    /\ [](\A c \in Conns :
            PutAccepted(c) =>
                /\ hs[c].file_size >= 0 => hs[c].iterations <= hs[c].file_size
                /\ hs[c].file_size < 0 => hs[c].iterations = 0
                /\ hs[c].pc = "loop" => hs[c].iterations < hs[c].file_size)
    /\ \A c \in Conns :
         /\ hs[c].pc = "loop" ~>
                ( /\ hs[c].pc = "done"
                  /\ Len(sent[c]) = 1
                  /\ sent[c][1] \in {TRANSFER_SUCCESSFUL_CODE, IntegrityFailed} )
         /\ PutAccepted(c) ~> (hs[c].pc = "done" /\ Len(sent[c]) = 1)

WitnessC19 ==
    \E c \in Conns :
        /\ PutAccepted(c)
        /\ hs[c].pc = "done"
        /\ hs[c].iterations >= 2
        /\ hs[c].iterations = hs[c].file_size
        /\ peerClosed[c]
        /\ Len(sent[c]) = 1

---------------------------------------------------------------------------
(* C15 *)

\* receive_file has ended: it returned or an exception left it.
ReceiveEnded == client.pc \in {"returned", "raised"}

\* The first read of receive_file returned exactly the header of the reply.
ReadWholeReply == client.file_info_recvd = Split(peer[1].script.hdr, <<SEPARATOR>>)

\* C15: for every reply of the peer (a NOTIFY_FAILURE reply, an unknown
\* reply type, a PUT-shaped header followed by a truncated stream or by data
\* whose digest is not the advertised hash) receive_file returns a pair
\* whose flag is NOTIFY_SUCCESS or NOTIFY_FAILURE, no exception escaping to
\* the caller, and the flag is NOTIFY_SUCCESS only when the digest of the
\* saved file is the advertised hash.  Stated for the replies whose header
\* was read whole.
ClaimC15 ==
    (ReceiveEnded /\ ReadWholeReply)
    => /\ client.pc = "returned"
       /\ Len(client.response_message) = 2
       /\ client.response_message[1] \in {NOTIFY_SUCCESS, NOTIFY_FAILURE}
       /\ client.response_message[1] = NOTIFY_SUCCESS =>
              <<calc_file_md5(files[client.fd])>> = client.file_hash

=============================================================================
